---- MODULE Spec2Model ----
(***************************************************************************)
(* DUI Case Analyzer (src/app.py): the text comparator compare_texts and   *)
(* the "Run Analysis" pipeline that feeds it.                              *)
(*                                                                         *)
(* A Python str is modelled as a sequence of characters; a character is a  *)
(* one-element name.  The alphabet holds an ASCII case pair (a, A), the    *)
(* Greek case pair (sigma U+03C3, Sigma U+03A3), whose lower-casing is     *)
(* context dependent in Python (fsigma U+03C2 is the word-final form), a   *)
(* blank and a line break.                                                 *)
(***************************************************************************)
EXTENDS Integers, Sequences, FiniteSets, TLC

VARIABLES
    pc,               \* position of the running call or pipeline
    transcript,       \* the transcript handed to compare_texts
    report_text,      \* the report handed to compare_texts
    matching_lines,   \* what compare_texts returned
    disk,             \* the temporary files that exist on disk
    tmp_video_path,   \* main logic: path of the video copy, or None
    summary_path,     \* main logic: path of the Word summary, or None
    video_text,       \* input: the text the speech model hears in the video
    report_kind,      \* input: "pdf", "docx", "other" (uploads) or "typed"
    report_src,       \* input: the text held by the uploaded report
    typed_report,     \* input: the typed report, None when a file is uploaded
    transcribed,      \* what transcribe_video returned
    read_result,      \* what read_report returned
    log,              \* the messages logged or shown so far
    doc_transcript,   \* the transcript section of the Word summary
    shown_transcript, \* the "Transcript" text area
    shown_matches     \* the "Matching Lines" text area

vars == <<pc, transcript, report_text, matching_lines, disk, tmp_video_path,
          summary_path, video_text, report_kind, report_src, typed_report,
          transcribed, read_result, log, doc_transcript, shown_transcript,
          shown_matches>>

(* ------------------------------ bounds -------------------------------- *)
MaxTranscriptLen == 3
MaxReportLen == 2
MaxRunLen == 1

(* ---------------------------- characters ------------------------------ *)
Alphabet == {"a", "A", "sigma", "Sigma", " ", "\n"}

\* characters str.strip() removes (str.isspace)
Whitespace == {" ", "\n"}

\* characters str.splitlines() breaks on
LineBreaks == {"\n"}

\* characters with the Unicode property Cased
Cased == {"a", "A", "sigma", "Sigma", "fsigma"}

\* all strings over Alphabet of length at most n
Str(n) == UNION {[1..k -> Alphabet] : k \in 0..n}

(* --------------------------- str operations --------------------------- *)
\* str.lower() of one character outside the Final_Sigma context
LowerChar(c) ==
    CASE c = "A" -> "a"
      [] c = "Sigma" -> "sigma"
      [] OTHER -> c

\* str.lower(): U+03A3 preceded by a cased letter and not followed by one
\* lower-cases to the final form U+03C2
lower(s) ==
    [i \in 1..Len(s) |->
        IF /\ s[i] = "Sigma"
           /\ i > 1 /\ s[i-1] \in Cased
           /\ (i = Len(s) \/ s[i+1] \notin Cased)
        THEN "fsigma"
        ELSE LowerChar(s[i])]

RECURSIVE lstrip(_)
lstrip(s) ==
    IF s # <<>> /\ Head(s) \in Whitespace THEN lstrip(Tail(s)) ELSE s

RECURSIVE rstrip(_)
rstrip(s) ==
    IF s # <<>> /\ s[Len(s)] \in Whitespace
    THEN rstrip(SubSeq(s, 1, Len(s) - 1))
    ELSE s

\* str.strip()
strip(s) == rstrip(lstrip(s))

\* str.splitlines(): a break ends the current line; what follows the last
\* break is a line only when it is not empty
RECURSIVE SplitFrom(_, _, _)
SplitFrom(s, i, line) ==
    IF i > Len(s)
    THEN (IF line = <<>> THEN <<>> ELSE <<line>>)
    ELSE IF s[i] \in LineBreaks
         THEN <<line>> \o SplitFrom(s, i + 1, <<>>)
         ELSE SplitFrom(s, i + 1, Append(line, s[i]))

splitlines(s) == SplitFrom(s, 1, <<>>)

\* the operator `sub in s` on str
Contains(sub, s) ==
    \E k \in 0..(Len(s) - Len(sub)) : SubSeq(s, k + 1, k + Len(sub)) = sub

(* ---------------------------- compare_texts --------------------------- *)
\* Python's None, and the values Python takes as false
NoneVal == <<"None">>

Falsy(x) == x = <<>> \/ x = NoneVal

NormalizeReport(r) == IF Falsy(r) THEN <<>> ELSE strip(lower(r))

NormalizeLine(line) == lower(strip(line))

\* the test without its `normalized_line and` guard
Matches_NoBlankGuard(normalized_line, normalized_report_text) ==
    Contains(normalized_line, normalized_report_text)

\* the test as equality with the whole report instead of containment
Matches_Equality(normalized_line, normalized_report_text) ==
    normalized_line # <<>> /\ normalized_line = normalized_report_text

Matches(normalized_line, normalized_report_text) ==
    normalized_line # <<>> /\ Contains(normalized_line, normalized_report_text)

\* a phrase already collected is not collected again
AppendPhrase_Dedup(shared_phrases, line) ==
    IF \E i \in 1..Len(shared_phrases) : shared_phrases[i] = strip(line)
    THEN shared_phrases
    ELSE Append(shared_phrases, strip(line))

\* the line is collected as read, not trimmed
AppendPhrase_Raw(shared_phrases, line) == Append(shared_phrases, line)

AppendPhrase(shared_phrases, line) == Append(shared_phrases, strip(line))

RECURSIVE CompareLoop(_, _, _)
CompareLoop(lines, normalized_report_text, shared_phrases) ==
    IF lines = <<>>
    THEN shared_phrases
    ELSE CompareLoop(Tail(lines), normalized_report_text,
            IF Matches(NormalizeLine(Head(lines)), normalized_report_text)
            THEN AppendPhrase(shared_phrases, Head(lines))
            ELSE shared_phrases)

compare_texts(t, r) == CompareLoop(splitlines(t), NormalizeReport(r), <<>>)

(* ------------------- properties of compare_texts ---------------------- *)
Returned == pc = "returned"

Lines == splitlines(transcript)

\* the trimmed transcript lines, blank ones included, in transcript order
RECURSIVE MapStrip(_)
MapStrip(ls) == IF ls = <<>> THEN <<>> ELSE <<strip(Head(ls))>> \o MapStrip(Tail(ls))

TrimmedLines == MapStrip(Lines)

IsNonBlank(t) == t # <<>>

NonBlankLines == SelectSeq(TrimmedLines, IsNonBlank)

Count(x, seq) == Cardinality({i \in 1..Len(seq) : seq[i] = x})

Range(seq) == {seq[i] : i \in 1..Len(seq)}

\* a single line is classified as matched when the call on it returns it
ClassifiedMatched(line, r) == compare_texts(line, r) # <<>>

IsOmitted(t) == ~ClassifiedMatched(t, report_text)

OmittedLines == SelectSeq(NonBlankLines, IsOmitted)

IsContained(line) ==
    /\ strip(line) # <<>>
    /\ Contains(lower(strip(line)), lower(report_text))

C2_MatchedIffContained ==
    Returned => matching_lines = MapStrip(SelectSeq(Lines, IsContained))

C2_Witness ==
    /\ Returned
    /\ matching_lines # <<>>
    /\ strip(report_text) # report_text
    /\ matching_lines[1] # report_text
    /\ matching_lines[1] # lower(matching_lines[1])

\* C3: matched is a subsequence of the trimmed transcript lines in their
\* order, and a line contained in the report occurs in matched as often as
\* it occurs in the transcript.
RECURSIVE IsSubsequence(_, _)
IsSubsequence(a, b) ==
    IF a = <<>> THEN TRUE
    ELSE IF b = <<>> THEN FALSE
    ELSE IF Head(a) = Head(b) THEN IsSubsequence(Tail(a), Tail(b))
    ELSE IsSubsequence(a, Tail(b))

C3_OrderAndMultiplicity ==
    Returned =>
        /\ IsSubsequence(matching_lines, TrimmedLines)
        /\ \A t \in Range(NonBlankLines) :
              Contains(lower(t), NormalizeReport(report_text))
                  => Count(t, matching_lines) = Count(t, TrimmedLines)

C3_Witness ==
    /\ Returned
    /\ \E t \in Range(matching_lines) :
          Count(t, matching_lines) = 2 /\ Count(t, TrimmedLines) = 2

\* C4: no element of the returned list is empty or whitespace-only; blank
\* transcript lines are skipped.
C4_NoBlankOutput ==
    Returned =>
        /\ \A i \in 1..Len(matching_lines) : strip(matching_lines[i]) # <<>>
        /\ Len(matching_lines) <= Len(NonBlankLines)

C4_Witness ==
    /\ Returned
    /\ Len(NonBlankLines) < Len(TrimmedLines)
    /\ matching_lines # <<>>

CaseClass(c) ==
    CASE c \in {"a", "A"} -> {"a", "A"}
      [] c \in {"sigma", "Sigma"} -> {"sigma", "Sigma"}
      [] OTHER -> {c}

\* the strings that differ from s only in the case of letters
CaseVariants(s) ==
    {t \in [1..Len(s) -> Alphabet] : \A i \in 1..Len(s) : t[i] \in CaseClass(s[i])}

Classification(t, r) ==
    [i \in 1..Len(splitlines(t)) |-> ClassifiedMatched(splitlines(t)[i], r)]

\* C6: changing the case of letters of the transcript or of the report never
\* changes which lines are matched, and matched lines keep their own case.
C6_CaseInsensitive ==
    Returned =>
        /\ Range(matching_lines) \subseteq Range(TrimmedLines)
        /\ \A t2 \in CaseVariants(transcript) :
              \A r2 \in CaseVariants(report_text) :
                  Classification(t2, r2) = Classification(transcript, report_text)

(* ----------------------- direct calls of compare_texts ---------------- *)
NoPath == "None"

InitCall ==
    /\ pc = "call"
    /\ transcript \in Str(MaxTranscriptLen)
    /\ report_text \in Str(MaxReportLen)
    /\ matching_lines = <<>>
    /\ disk = {}
    /\ tmp_video_path = NoPath
    /\ summary_path = NoPath
    /\ video_text = <<>>
    /\ report_kind = "typed"
    /\ report_src = <<>>
    /\ typed_report = <<>>
    /\ transcribed = <<>>
    /\ read_result = <<>>
    /\ log = {}
    /\ doc_transcript = <<>>
    /\ shown_transcript = <<>>
    /\ shown_matches = <<>>

CallCompareTexts ==
    /\ pc = "call"
    /\ matching_lines' = compare_texts(transcript, report_text)
    /\ pc' = "returned"
    /\ UNCHANGED <<transcript, report_text, disk, tmp_video_path, summary_path,
                   video_text, report_kind, report_src, typed_report,
                   transcribed, read_result, log, doc_transcript,
                   shown_transcript, shown_matches>>

NextCall == CallCompareTexts

Spec == InitCall /\ [][NextCall]_vars

(* ------------------------ the Run Analysis pipeline ------------------- *)
\* what the widgets and the summary show for an empty value
NoTranscriptGenerated == <<"No transcript generated.">>
NoTranscriptAvailable == <<"No transcript available.">>
NoMatchingPhrases == <<"No matching phrases found.">>

\* "\n".join(items)
RECURSIVE Join(_)
Join(items) ==
    IF items = <<>> THEN <<>>
    ELSE IF Len(items) = 1 THEN Head(items)
    ELSE Head(items) \o <<"\n">> \o Join(Tail(items))

\* the paragraphs of a DOCX whose text is src: one per line-feed separated run
RECURSIVE ParagraphsFrom(_, _, _)
ParagraphsFrom(src, i, para) ==
    IF i > Len(src) THEN <<para>>
    ELSE IF src[i] = "\n"
         THEN <<para>> \o ParagraphsFrom(src, i + 1, <<>>)
         ELSE ParagraphsFrom(src, i + 1, Append(para, src[i]))

Paragraphs(src) == ParagraphsFrom(src, 1, <<>>)

\* the guard of the main logic: a video and a report file or a typed report
InitRun ==
    /\ pc = "save_video"
    /\ video_text \in Str(MaxRunLen)
    /\ report_kind \in {"pdf", "docx", "other", "typed"}
    /\ report_src \in Str(MaxRunLen)
    /\ typed_report \in Str(MaxRunLen) \cup {NoneVal}
    /\ IF report_kind = "typed"
       THEN report_src = <<>> /\ typed_report \notin {<<>>, NoneVal}
       ELSE typed_report = NoneVal
    /\ transcript = NoneVal
    /\ report_text = NoneVal
    /\ matching_lines = <<>>
    /\ disk = {}
    /\ tmp_video_path = NoPath
    /\ summary_path = NoPath
    /\ transcribed = NoneVal
    /\ read_result = NoneVal
    /\ log = {}
    /\ doc_transcript = NoneVal
    /\ shown_transcript = NoneVal
    /\ shown_matches = NoneVal

\* an exception reaching the handler of the main try: logged, then finally
Raised == /\ pc' = "finally"
          /\ log' = log \cup {"analysis_error"}

\* the video copy: NamedTemporaryFile(delete=False), write, then the path
SaveVideo ==
    /\ pc = "save_video"
    /\ \E outcome \in {"create_fails", "write_fails", "saved"} :
          CASE outcome = "create_fails" ->
                  /\ Raised
                  /\ UNCHANGED <<disk, tmp_video_path>>
            [] outcome = "write_fails" ->
                  /\ disk' = disk \cup {"mp4"}
                  /\ Raised
                  /\ UNCHANGED tmp_video_path
            [] outcome = "saved" ->
                  /\ disk' = disk \cup {"mp4"}
                  /\ tmp_video_path' = "mp4"
                  /\ IF tmp_video_path' \in disk'
                     THEN pc' = "transcribe" /\ UNCHANGED log
                     ELSE pc' = "finally" /\ log' = log \cup {"video_not_saved"}
    /\ UNCHANGED <<transcript, report_text, matching_lines, summary_path,
                   video_text, report_kind, report_src, typed_report,
                   transcribed, read_result, doc_transcript, shown_transcript,
                   shown_matches>>

\* the ways transcribe_video fails, by the message it logs
TranscribeFailures ==
    {"video_missing", "model_not_loaded", "ffmpeg_failed", "ffmpeg_missing",
     "transcription_error"}

\* the value transcribe_video returns on the path named by outcome
TranscribeReturn(outcome, text) == IF outcome = "ok" THEN text ELSE <<>>

TranscribeVideo ==
    /\ pc = "transcribe"
    /\ \E outcome \in
            (IF tmp_video_path \notin disk
             THEN {"video_missing"}
             ELSE {"model_not_loaded", "ffmpeg_failed", "ffmpeg_missing",
                   "transcription_error", "ok"}) :
          /\ transcribed' = TranscribeReturn(outcome, video_text)
          /\ log' = IF outcome = "ok" THEN log ELSE log \cup {outcome}
    /\ transcript' = transcribed'
    /\ pc' = "read_report"
    /\ UNCHANGED <<report_text, matching_lines, disk, tmp_video_path,
                   summary_path, video_text, report_kind, report_src,
                   typed_report, read_result, doc_transcript, shown_transcript,
                   shown_matches>>

\* the value read_pdf returns: the text of the pages read before a failure
PdfReturn(src, pages_read) == SubSeq(src, 1, pages_read)

\* the typed report is taken even when a file was uploaded
ReportChoice_AlwaysTyped(kind, read, typed) == typed

\* the report handed on: read_report(report_file) if report_file else typed
ReportChoice(kind, read, typed) == IF kind # "typed" THEN read ELSE typed

ReadReport ==
    /\ pc = "read_report"
    /\ \/ /\ report_kind = "typed"
          /\ read_result' = NoneVal
          /\ report_text' = ReportChoice(report_kind, read_result', typed_report)
          /\ pc' = "compare"
          /\ UNCHANGED <<disk, log>>
       \/ /\ report_kind = "pdf"
          /\ \E outcome \in {"create_fails", "write_fails", "read_fails", "ok"} :
             \E pages_read \in 0..Len(report_src) :
                /\ outcome # "read_fails" => pages_read = Len(report_src)
                /\ read_result' =
                      IF outcome \in {"create_fails", "write_fails"}
                      THEN <<>>
                      ELSE PdfReturn(report_src, pages_read)
                /\ log' = IF outcome = "ok" THEN log ELSE log \cup {"pdf_error"}
                \* the copy is removed only when tmp_path was assigned
                /\ disk' = IF outcome = "write_fails"
                           THEN disk \cup {"pdf"}
                           ELSE disk \ {"pdf"}
          /\ report_text' = ReportChoice(report_kind, read_result', typed_report)
          /\ pc' = "compare"
       \/ /\ report_kind = "docx"
          /\ \/ /\ read_result' = Join(Paragraphs(report_src))
                /\ report_text' =
                      ReportChoice(report_kind, read_result', typed_report)
                /\ pc' = "compare"
                /\ UNCHANGED log
             \/ /\ Raised
                /\ UNCHANGED <<read_result, report_text>>
          /\ UNCHANGED disk
       \/ /\ report_kind = "other"
          /\ read_result' = <<>>
          /\ report_text' = ReportChoice(report_kind, read_result', typed_report)
          /\ log' = log \cup {"unsupported_report"}
          /\ pc' = "compare"
          /\ UNCHANGED disk
    /\ UNCHANGED <<transcript, matching_lines, tmp_video_path, summary_path,
                   video_text, report_kind, report_src, typed_report,
                   transcribed, doc_transcript, shown_transcript, shown_matches>>

\* lines 208-213: without report text the transcript is emptied, then the
\* comparison runs in every case
Compare ==
    /\ pc = "compare"
    /\ transcript' = IF Falsy(report_text) THEN <<>> ELSE transcript
    /\ log' = (IF Falsy(report_text) THEN log \cup {"no_report_text"} ELSE log)
                 \cup {"compared"}
    /\ matching_lines' = compare_texts(transcript', report_text)
    /\ pc' = "summary"
    /\ UNCHANGED <<report_text, disk, tmp_video_path, summary_path, video_text,
                   report_kind, report_src, typed_report, transcribed,
                   read_result, doc_transcript, shown_transcript, shown_matches>>

GenerateWordSummary ==
    /\ pc = "summary"
    /\ doc_transcript' =
          IF Falsy(transcript) THEN NoTranscriptAvailable ELSE transcript
    /\ \E outcome \in {"create_fails", "save_fails", "saved"} :
          /\ disk' = IF outcome = "create_fails" THEN disk ELSE disk \cup {"docx"}
          /\ summary_path' = IF outcome = "saved" THEN "docx" ELSE NoPath
          /\ log' = IF outcome = "saved" THEN log ELSE log \cup {"summary_error"}
    /\ pc' = "display"
    /\ UNCHANGED <<transcript, report_text, matching_lines, tmp_video_path,
                   video_text, report_kind, report_src, typed_report,
                   transcribed, read_result, shown_transcript, shown_matches>>

Display ==
    /\ pc = "display"
    /\ \/ /\ summary_path # NoPath
          /\ summary_path \in disk
          /\ Raised
          /\ UNCHANGED <<shown_transcript, shown_matches>>
       \/ /\ log' = (IF summary_path # NoPath /\ summary_path \in disk
                     THEN log
                     ELSE log \cup {"no_word_report"}) \cup {"complete"}
          /\ shown_transcript' =
                IF Falsy(transcript) THEN NoTranscriptGenerated ELSE transcript
          /\ shown_matches' =
                IF matching_lines = <<>> THEN NoMatchingPhrases
                ELSE Join(matching_lines)
          /\ pc' = "finally"
    /\ UNCHANGED <<transcript, report_text, matching_lines, disk,
                   tmp_video_path, summary_path, video_text, report_kind,
                   report_src, typed_report, transcribed, read_result,
                   doc_transcript>>

\* the files the finally block removes: the paths that were assigned
Removed(video_path, word_path) == {video_path, word_path} \ {NoPath}

Finally ==
    /\ pc = "finally"
    /\ disk' = disk \ Removed(tmp_video_path, summary_path)
    /\ pc' = "done"
    /\ UNCHANGED <<transcript, report_text, matching_lines, tmp_video_path,
                   summary_path, video_text, report_kind, report_src,
                   typed_report, transcribed, read_result, log, doc_transcript,
                   shown_transcript, shown_matches>>

NextRun ==
    \/ SaveVideo
    \/ TranscribeVideo
    \/ ReadReport
    \/ Compare
    \/ GenerateWordSummary
    \/ Display
    \/ Finally

SpecRun == InitRun /\ [][NextRun]_vars

(* -------------------- properties of the pipeline ---------------------- *)
IsStr(x) == x \in Seq(Alphabet)

Finished == pc = "done"

\* C8: when the uploaded report yields no text, the match list is empty and
\* the transcript obtained from the video is still what is displayed and
\* exported.
C8_EmptyReportKeepsTranscript ==
    (Finished /\ "complete" \in log /\ report_kind # "typed" /\ read_result = <<>>)
        => /\ matching_lines = <<>>
           /\ shown_transcript =
                 (IF transcribed = <<>> THEN NoTranscriptGenerated ELSE transcribed)
           /\ doc_transcript =
                 (IF transcribed = <<>> THEN NoTranscriptAvailable ELSE transcribed)

\* the failure paths of transcribe_video and read_report that are handled
\* inside them
HandledFailures == TranscribeFailures \cup {"unsupported_report", "pdf_error"}

C10_NoTempFileRemains == Finished => disk = {}

====
